---------------------------- MODULE Spec2Model ----------------------------
(***************************************************************************)
(* Model of the statistics library src/src/lib.rs: mean, stddev, median    *)
(* and l2 over a slice of floating-point numbers.                          *)
(*                                                                         *)
(* f64 is modelled by a binary floating-point format of the same IEEE-754  *)
(* structure (sign, biased exponent, hidden-bit significand, subnormals,   *)
(* signed zeros, infinities, NaN, round-to-nearest ties-to-even), scaled   *)
(* down to ExpBits exponent bits and MantBits fraction bits.  A finite     *)
(* number is a sign and a count n of quanta, the quantum being the         *)
(* smallest positive subnormal 2^(EMin - MantBits).                        *)
(***************************************************************************)
EXTENDS Integers, Sequences, FiniteSets

(* ------------------------------ bounds -------------------------------- *)

MaxLen ==
  3

ExpBits ==
  3

MantBits ==
  2

(* --------------------------- the float format ------------------------- *)

Bias == 2^(ExpBits - 1) - 1
EMax == Bias
EMin == 1 - Bias
\* number of binades above the lowest normal one
TopShift == EMax - EMin
\* the value 1.0 is 2^QBits quanta
QBits == MantBits - EMin
Hidden == 2^MantBits
MaxN == (2 * Hidden - 1) * 2^TopShift

NaN == [c |-> "nan", s |-> 0, n |-> 0]
Inf(sg) == [c |-> "inf", s |-> sg, n |-> 0]
Fin(sg, k) == [c |-> "fin", s |-> sg, n |-> k]

PZero == Fin(0, 0)
NZero == Fin(1, 0)
One == Fin(0, 2^QBits)
MinSub == Fin(0, 1)
MinNormal == Fin(0, Hidden)
MaxFinite == Fin(0, MaxN)

RepN == {m * 2^g : m \in 0..(2 * Hidden - 1), g \in 0..TopShift}
Floats == {NaN} \cup {Inf(sg) : sg \in {0, 1}}
            \cup {Fin(sg, k) : sg \in {0, 1}, k \in RepN}

IsNaN(a) == a.c = "nan"
IsInf(a) == a.c = "inf"
IsFin(a) == a.c = "fin"
IsZero(a) == a.c = "fin" /\ a.n = 0

RECURSIVE BitLen(_)
BitLen(k) == IF k = 0 THEN 0 ELSE 1 + BitLen(k \div 2)

\* Round the non-negative rational num/den (in quanta) to the nearest
\* representable number, ties to even, overflowing to infinity.
RoundRat(sg, num, den) ==
  LET q0 == num \div den
      g  == IF BitLen(q0) > MantBits + 1 THEN BitLen(q0) - (MantBits + 1) ELSE 0
  IN IF g > TopShift THEN Inf(sg)
     ELSE LET dd == den * 2^g
              k0 == num \div dd
              r  == num % dd
              up == IF 2 * r > dd \/ (2 * r = dd /\ k0 % 2 = 1) THEN 1 ELSE 0
              k  == (k0 + up) * 2^g
          IN IF k > MaxN THEN Inf(sg) ELSE Fin(sg, k)

Neg(a) == IF IsNaN(a) THEN NaN ELSE [a EXCEPT !.s = 1 - a.s]
Abs(a) == IF IsNaN(a) THEN NaN ELSE [a EXCEPT !.s = 0]

\* signed quanta of a finite number
Signed(a) == IF a.s = 1 THEN 0 - a.n ELSE a.n

\* a + b
Add(a, b) ==
  IF IsNaN(a) \/ IsNaN(b) THEN NaN
  ELSE IF IsInf(a) /\ IsInf(b) THEN (IF a.s = b.s THEN a ELSE NaN)
  ELSE IF IsInf(a) THEN a
  ELSE IF IsInf(b) THEN b
  ELSE LET t == Signed(a) + Signed(b)
       IN IF t = 0 THEN Fin(IF a.s = b.s THEN a.s ELSE 0, 0)
          ELSE IF t < 0 THEN RoundRat(1, 0 - t, 1)
          ELSE RoundRat(0, t, 1)

\* a - b
Sub(a, b) == Add(a, Neg(b))

\* a * b
Mul(a, b) ==
  IF IsNaN(a) \/ IsNaN(b) THEN NaN
  ELSE LET sg == IF a.s = b.s THEN 0 ELSE 1
       IN IF IsInf(a) \/ IsInf(b)
            THEN (IF IsZero(a) \/ IsZero(b) THEN NaN ELSE Inf(sg))
          ELSE IF BitLen(a.n) + BitLen(b.n) - 2 - QBits >= MantBits + 1 + TopShift
            THEN Inf(sg)
          ELSE RoundRat(sg, a.n * b.n, 2^QBits)

\* a / b
Div(a, b) ==
  IF IsNaN(a) \/ IsNaN(b) THEN NaN
  ELSE LET sg == IF a.s = b.s THEN 0 ELSE 1
       IN IF IsInf(a) THEN (IF IsInf(b) THEN NaN ELSE Inf(sg))
          ELSE IF IsInf(b) THEN Fin(sg, 0)
          ELSE IF b.n = 0 THEN (IF a.n = 0 THEN NaN ELSE Inf(sg))
          ELSE RoundRat(sg, a.n * 2^QBits, b.n)

RECURSIVE ISqrt(_)
ISqrt(k) ==
  IF k < 2 THEN k
  ELSE LET t == 2 * ISqrt(k \div 4)
       IN IF (t + 1) * (t + 1) <= k THEN t + 1 ELSE t

\* f64::sqrt, correctly rounded
Sqrt(a) ==
  IF IsNaN(a) THEN NaN
  ELSE IF IsZero(a) THEN a
  ELSE IF a.s = 1 THEN NaN
  ELSE IF IsInf(a) THEN a
  ELSE LET big == a.n * 2^QBits
           rt  == ISqrt(big)
           g   == IF BitLen(rt) > MantBits + 1 THEN BitLen(rt) - (MantBits + 1) ELSE 0
           k0  == rt \div 2^g
           \* sqrt(big) against the midpoint (k0 + 1/2) * 2^g
           lhs == 4 * big
           rhs == (2 * k0 + 1) * (2 * k0 + 1) * 4^g
           up  == IF lhs > rhs \/ (lhs = rhs /\ k0 % 2 = 1) THEN 1 ELSE 0
       IN Fin(0, (k0 + up) * 2^g)

\* mutant: a square that keeps the sign of its argument
PowfSigned(a) == Mul(a, Abs(a))

\* f64::powf(self, 2.0): the square, correctly rounded
Powf2(a) == Mul(a, a)

\* usize as f64
AsF64(k) == RoundRat(0, k * 2^QBits, 1)

\* f64::partial_cmp
PartialCmp(a, b) ==
  IF IsNaN(a) \/ IsNaN(b) THEN "None"
  ELSE LET va == IF IsInf(a) THEN (IF a.s = 1 THEN 0 - (MaxN + 1) ELSE MaxN + 1)
                 ELSE Signed(a)
           vb == IF IsInf(b) THEN (IF b.s = 1 THEN 0 - (MaxN + 1) ELSE MaxN + 1)
                 ELSE Signed(b)
       IN IF va < vb THEN "Less" ELSE IF va = vb THEN "Equal" ELSE "Greater"

FEq(a, b) == PartialCmp(a, b) = "Equal"
FLt(a, b) == PartialCmp(a, b) = "Less"
FLe(a, b) == PartialCmp(a, b) \in {"Less", "Equal"}
FGe(a, b) == PartialCmp(a, b) \in {"Greater", "Equal"}

(* ----------------------------- Option<f64> ----------------------------- *)

None == [tag |-> "None", val |-> PZero]
Some(v) == [tag |-> "Some", val |-> v]
\* the call unwound with a panic instead of returning
Panic == [tag |-> "Panic", val |-> PZero]
NotCalled == [tag |-> "NotCalled", val |-> PZero]

(* ------------------------------- mean --------------------------------- *)

\* mutant: the elements are added last to first
RECURSIVE MeanLoopRev(_, _)
MeanLoopRev(rest, sum) ==
  IF rest = <<>> THEN sum
  ELSE Add(MeanLoopRev(Tail(rest), sum), Head(rest))

\* for i in &nums[..] { sum = sum + i; }
RECURSIVE MeanLoop(_, _)
MeanLoop(rest, sum) ==
  IF rest = <<>> THEN sum
  ELSE MeanLoop(Tail(rest), Add(sum, Head(rest)))

mean(nums) ==
  IF Len(nums) = 0 THEN Some(PZero)
  ELSE LET len == AsF64(Len(nums))
           sum == MeanLoop(nums, PZero)
       IN Some(Div(sum, len))

(* ------------------------------ stddev -------------------------------- *)

\* for i in &nums[..] { sums.push((i - avg).powf(2.0)); }
RECURSIVE StddevLoop(_, _, _)
StddevLoop(rest, avg, sums) ==
  IF rest = <<>> THEN sums
  ELSE StddevLoop(Tail(rest), avg, Append(sums, Powf2(Sub(Head(rest), avg))))

\* mutant: the empty sample treated as mean and l2 treat it
StddevEmptyZero(nums) ==
  IF Len(nums) = 0 THEN Some(PZero)
  ELSE IF Len(nums) = 1 THEN Some(PZero)
  ELSE Some(Sqrt(mean(StddevLoop(nums, mean(nums).val, <<>>)).val))

\* mutant: the sample standard deviation, divisor n - 1
StddevBessel(nums) ==
  IF Len(nums) = 0 THEN None
  ELSE IF Len(nums) = 1 THEN Some(PZero)
  ELSE LET sums == StddevLoop(nums, mean(nums).val, <<>>)
       IN Some(Sqrt(Div(MeanLoop(sums, PZero), AsF64(Len(nums) - 1))))

\* mutant: no special case for the single element
StddevNoSingle(nums) ==
  IF Len(nums) = 0 THEN None
  ELSE Some(Sqrt(mean(StddevLoop(nums, mean(nums).val, <<>>)).val))

stddev(nums) ==
  IF Len(nums) = 0 THEN None
  ELSE IF Len(nums) = 1 THEN Some(PZero)
  ELSE LET avgO == mean(nums)
       IN IF avgO.tag # "Some" THEN Panic   \* unwrap()
          ELSE LET sums == StddevLoop(nums, avgO.val, <<>>)
                   m2   == mean(sums)
               IN IF m2.tag # "Some" THEN Panic   \* unwrap()
                  ELSE Some(Sqrt(m2.val))

(* ------------------------------ median -------------------------------- *)

SortOk(v) == [ok |-> TRUE, v |-> v]
SortPanic == [ok |-> FALSE, v |-> <<>>]

\* Insert h in front of the sorted run t, after the elements strictly less
\* than it; every comparison is a.partial_cmp(b).unwrap().
RECURSIVE InsertHead(_, _)
InsertHead(h, t) ==
  IF t = <<>> THEN SortOk(<<h>>)
  ELSE LET c == PartialCmp(Head(t), h)
       IN IF c = "None" THEN SortPanic
          ELSE IF c = "Less"
            THEN LET r == InsertHead(h, Tail(t))
                 IN IF r.ok THEN SortOk(<<Head(t)>> \o r.v) ELSE r
          ELSE SortOk(<<h>> \o t)

\* nums.sort_by(|a, b| a.partial_cmp(b).unwrap()): the stable sort; a slice
\* shorter than two is returned without a comparison.
RECURSIVE SortBy(_)
SortBy(v) ==
  IF Len(v) < 2 THEN SortOk(v)
  ELSE LET r == SortBy(Tail(v))
       IN IF r.ok THEN InsertHead(Head(v), r.v) ELSE r

\* nums.to_owned()
ToOwned(v) == [i \in 1..Len(v) |-> v[i]]

\* mutant: the upper of the two central positions
UpperMidIndex(len) == len \div 2

\* let mid = (nums.len() - 1) / 2; zero-based
MidIndex(len) == (len - 1) \div 2

\* mutant: an even sample yields the average of its two central elements
MedianAverage(nums) ==
  LET sorted == SortBy(ToOwned(nums))
      n == Len(sorted.v)
  IN IF ~sorted.ok THEN Panic
     ELSE IF n = 0 THEN None
     ELSE IF n % 2 = 1 THEN Some(sorted.v[(n + 1) \div 2])
     ELSE Some(Div(Add(sorted.v[n \div 2], sorted.v[n \div 2 + 1]), AsF64(2)))

median(nums) ==
  LET sorted == SortBy(ToOwned(nums))
  IN IF ~sorted.ok THEN Panic
     ELSE IF Len(sorted.v) = 0 THEN None
     ELSE Some(sorted.v[MidIndex(Len(sorted.v)) + 1])

(* -------------------------------- l2 ---------------------------------- *)

\* for i in &nums[..] { sum = sum + i.powf(2.0); }
RECURSIVE L2Loop(_, _)
L2Loop(rest, sum) ==
  IF rest = <<>> THEN sum
  ELSE L2Loop(Tail(rest), Add(sum, Powf2(Head(rest))))

\* mutant: the elements are summed without being squared
RECURSIVE L2LoopNoSquare(_, _)
L2LoopNoSquare(rest, sum) ==
  IF rest = <<>> THEN sum
  ELSE L2LoopNoSquare(Tail(rest), Add(sum, Head(rest)))

L2NoSquare(nums) ==
  IF Len(nums) = 0 THEN Some(PZero)
  ELSE Some(Sqrt(L2LoopNoSquare(nums, PZero)))

l2(nums) ==
  IF Len(nums) = 0 THEN Some(PZero)
  ELSE Some(Sqrt(L2Loop(nums, PZero)))

(* ------------------------- the caller's view -------------------------- *)

\* What a call leaves behind: the caller's slice and the returned value.
\* The functions take &[f64]; median sorts its own copy only.
\* mutant: median sorts the caller's slice in place
MedianInPlace(nums) ==
  LET sorted == SortBy(nums)
  IN [caller |-> IF sorted.ok THEN sorted.v ELSE nums, ret |-> median(nums)]

MeanCall(nums) == [caller |-> nums, ret |-> mean(nums)]
StddevCall(nums) == [caller |-> nums, ret |-> stddev(nums)]
MedianCall(nums) == [caller |-> nums, ret |-> median(nums)]
L2Call(nums) == [caller |-> nums, ret |-> l2(nums)]

(* ------------------------------ samples ------------------------------- *)

NegOne == Neg(One)
\* 2 - 2^(1 - MantBits): the significand with every bit set but the last
AlmostTwo == Fin(0, 2^(QBits + 1) - 2^(QBits - MantBits + 1))

\* the special values, both zeros, the extremes of the range, and values
\* whose sums are exact (1.0) and inexact (AlmostTwo)
Elems == {NaN, Inf(0), Inf(1), PZero, NZero, One, NegOne, AlmostTwo,
          MinSub, MaxFinite, Neg(MaxFinite)}

SeqsUpTo(S, k) == UNION {[1..m -> S] : m \in 0..k}

\* every sample over Elems up to MaxLen, and every one-element sample
Samples == SeqsUpTo(Elems, MaxLen) \cup {<<f>> : f \in Floats}

StatFns == {"mean", "stddev", "median", "l2"}

(* --------------------------- state machine ---------------------------- *)

VARIABLES
  nums,     \* the caller's sample
  op,       \* the function called last, "none" before the first call
  result,   \* what that call returned
  repeat    \* the last call repeated the function called before it

vars == <<nums, op, result, repeat>>

TypeOK ==
  /\ nums \in Samples
  /\ op \in StatFns \cup {"none"}
  /\ result.tag \in {"None", "Some", "Panic", "NotCalled"}
  /\ result.val \in Floats
  /\ repeat \in BOOLEAN

Init ==
  /\ nums \in Samples
  /\ op = "none"
  /\ result = NotCalled
  /\ repeat = FALSE

Returned(f, r) ==
  /\ nums' = r.caller
  /\ op' = f
  /\ result' = r.ret
  /\ repeat' = (op = f)

CallMean == Returned("mean", MeanCall(nums))
CallStddev == Returned("stddev", StddevCall(nums))
CallMedian == Returned("median", MedianCall(nums))
CallL2 == Returned("l2", L2Call(nums))

Next == CallMean \/ CallStddev \/ CallMedian \/ CallL2

Spec == Init /\ [][Next]_vars

(* ------------------------ reference definitions ----------------------- *)

HasNaN(v) == \E i \in 1..Len(v) : IsNaN(v[i])
AllFinite(v) == \A i \in 1..Len(v) : IsFin(v[i])
AllEqual(v) == \A i \in 1..Len(v) : FEq(v[i], v[1])
\* finite, and at least the smallest normal number in magnitude
IsNormal(a) == IsFin(a) /\ a.n >= Hidden

\* x_1 + ... + x_k, added onto 0.0 in index order
RECURSIVE SumTo(_, _)
SumTo(v, k) == IF k = 0 THEN PZero ELSE Add(SumTo(v, k - 1), v[k])

\* the sum divided by the number of elements
RefMean(v) == Div(SumTo(v, Len(v)), AsF64(Len(v)))

\* the squared deviations from m, in sample order
RefSqDev(v, m) == [i \in 1..Len(v) |-> Mul(Sub(v[i], m), Sub(v[i], m))]

RefSquares(v) == [i \in 1..Len(v) |-> Mul(v[i], v[i])]

\* the sample with the elements at the positions in mask negated
Flip(v, mask) == [i \in 1..Len(v) |-> IF i \in mask THEN Neg(v[i]) ELSE v[i]]

CountLt(v, r) == Cardinality({i \in 1..Len(v) : FLt(v[i], r)})
CountLe(v, r) == Cardinality({i \in 1..Len(v) : FLe(v[i], r)})

(* ------------------------------- claims ------------------------------- *)

\* C1: stddev and median return None exactly when the sample is empty;
\* mean and l2 always return Some, and Some(0.0) for the empty sample.
C1_AbsenceByEmptiness ==
  /\ op \in {"stddev", "median"} => (result.tag = "None" <=> nums = <<>>)
  /\ op \in {"mean", "l2"} =>
       /\ result.tag = "Some"
       /\ nums = <<>> => result.val = PZero

C1_Witness == op = "median" /\ nums = <<>> /\ result = None

\* C2: on a non-empty sample without NaN, median returns the element that
\* stands at zero-based index (n - 1) / 2 of the ascending order: at most
\* that many elements are smaller and more than that many are not larger;
\* for even n the index is n/2 - 1.
C2_LowerMedian ==
  (op = "median" /\ nums # <<>> /\ ~HasNaN(nums)) =>
     LET n == Len(nums)
         mid == (n - 1) \div 2
         r == result.val
     IN /\ result.tag = "Some"
        /\ n % 2 = 0 => mid = n \div 2 - 1
        /\ \E i \in 1..n : FEq(nums[i], r)
        /\ CountLt(nums, r) <= mid
        /\ CountLe(nums, r) >= mid + 1

C2_Witness ==
  /\ op = "median" /\ Len(nums) = 2
  /\ FLt(nums[2], nums[1])
  /\ result = Some(nums[2])

\* C3: no call ends in a panic; every call returns Some or None.
C3_NoPanic == op # "none" => result.tag \in {"Some", "None"}

\* C4: a present median is one of the elements of the caller's sample.
C4_MedianSelects ==
  (op = "median" /\ result.tag = "Some") =>
     \E i \in 1..Len(nums) : nums[i] = result.val

C4_Witness ==
  /\ op = "median" /\ Len(nums) = 3
  /\ FLt(nums[2], nums[1]) /\ FLt(nums[1], nums[3])
  /\ result = Some(nums[1])

C6_Original ==
  (op \in {"stddev", "l2"} /\ nums # <<>>) =>
     result.tag = "Some" /\ FGe(result.val, PZero)

\* C6 amended: l2 of a non-empty sample is >= 0.0 unless the sample holds
\* a NaN, stddev is >= 0.0 unless the sample has two or more elements and
\* holds a NaN or an infinity; in the excepted cases the result is NaN.
C6_NonNegative ==
  (op \in {"stddev", "l2"} /\ nums # <<>>) =>
     LET excepted == IF op = "l2" THEN HasNaN(nums)
                     ELSE Len(nums) >= 2 /\ ~AllFinite(nums)
     IN /\ result.tag = "Some"
        /\ ~excepted => FGe(result.val, PZero)
        /\ excepted => IsNaN(result.val)

C6_Witness ==
  /\ op = "stddev" /\ Len(nums) >= 2 /\ AllFinite(nums)
  /\ FLt(PZero, result.val)

\* C7 as stated: for a one-element sample [v], stddev is 0.0, median is v
\* and l2 is |v|, for every v.
C7_Original ==
  Len(nums) = 1 =>
     /\ op = "stddev" => result = Some(PZero)
     /\ op = "median" => result = Some(nums[1])
     /\ op = "l2" => result = Some(Abs(nums[1]))

\* C7 amended: for a one-element sample [v], stddev is 0.0 and median is
\* v; l2 is sqrt(v * v), which is |v| when v is a zero, an infinity or NaN
\* or when v * v neither overflows nor falls below the normal range.
C7_SingleElement ==
  Len(nums) = 1 =>
     LET v == nums[1]
         sq == Mul(v, v)
     IN /\ op = "stddev" => result = Some(PZero)
        /\ op = "median" => result = Some(v)
        /\ op = "l2" =>
             /\ result = Some(Sqrt(sq))
             /\ (IsZero(v) \/ IsInf(v) \/ IsNaN(v) \/ IsNormal(sq))
                  => result = Some(Abs(v))

C7_Witness == op = "l2" /\ nums = <<NegOne>> /\ result = Some(One)

C9_SignIndependent ==
  (op = "l2" /\ nums # <<>>) =>
     /\ result = Some(Sqrt(SumTo(RefSquares(nums), Len(nums))))
     /\ \A mask \in SUBSET (1..Len(nums)) : l2(Flip(nums, mask)) = result

C9_Witness ==
  /\ op = "l2" /\ Len(nums) = 2
  /\ nums[1] = NegOne /\ nums[2] = AlmostTwo
  /\ IsFin(result.val) /\ FLt(AlmostTwo, result.val)

\* C10: mean of a non-empty sample is the left-to-right sum from 0.0
\* divided by the length; the empty sample yields Some(0.0) and is never
\* divided.
C10_MeanFormula ==
  op = "mean" =>
     /\ nums # <<>> => result = Some(RefMean(nums))
     /\ nums = <<>> => result = Some(PZero)

C10_Witness == op = "mean" /\ nums = <<NegOne, One>> /\ result = Some(PZero)

=============================================================================
